---------------------------- MODULE Spec2Model ----------------------------
(***************************************************************************)
(* External sorting of integers: the balanced two-tape merge sort of       *)
(* "Intercalação balanceada/algoritmo.py" (ExternalBalancedMergeSort) and  *)
(* the heap-driven k-way merge of "MergeSort Externo/algoritmo.py"         *)
(* (ExternalMergeSort).                                                    *)
(*                                                                         *)
(* A tape is a file holding a flat stream of pickled integers: a length    *)
(* prefix N followed by N values, record after record, with no delimiter   *)
(* between records.  A chunk file is a text file of decimal lines.  Files  *)
(* are named by the number that makes their name unique.                   *)
(***************************************************************************)
EXTENDS Integers, Sequences, FiniteSets

\* ------------------------------------------------------------------ bounds
MaxVal == 3
MaxLen == 5
MaxMem == 2
MaxFaults == 1
MaxRun == 3
MaxChunks == 3
MaxTotal == 4
MaxAreas == 3

Values == 1..MaxVal

\* --------------------------------------------------------------- variables
VARIABLES
    \* ExternalBalancedMergeSort.sort_file
    input,              \* the integers read_input_file yields
    memory_limit,       \* self.memory_limit
    pc,                 \* position in sort_file
    consumed,           \* how many input numbers the generator has read
    buffer,             \* create_initial_runs_from_file: buffer
    runs_count,         \* create_initial_runs_from_file: runs_count
    current_tape,       \* create_initial_runs_from_file: current_tape
    tape_counter,       \* self.tape_counter
    initial_tapes,      \* <<tape_a, tape_b>>
    current_tapes,      \* sort_file: current_tapes
    output_tapes,       \* sort_file: output_tapes
    pass_number,        \* sort_file: pass_number
    files,              \* the temp_dir: tape name -> stream of pickled ints
    tape_files,         \* merge_phase: tape_files, the open read handles
    leaked,             \* handles opened and never closed by the program
    sequences_created,  \* merge_phase: sequences_created
    current_output,     \* merge_phase: current_output
    sorted_data,        \* what sort_file hands to write_output_file
    result,             \* how sort_file ended
    written,            \* history: the runs written in the current phase
    trunc_seen,         \* history: a read met a record cut short
    faults              \* how many storage faults may still happen

balVars == <<input, memory_limit, pc, consumed, buffer, runs_count,
             current_tape, tape_counter, initial_tapes, current_tapes,
             output_tapes, pass_number, files, tape_files, leaked,
             sequences_created, current_output, sorted_data, result,
             written, trunc_seen, faults>>

VARIABLES
    \* ExternalMergeSort.external_merge_sort
    lines,              \* the lines of the input file
    chunk_size,         \* self.chunk_size
    k_pc,               \* position in external_merge_sort
    line_pos,           \* how many input lines have been read
    chunk_files,        \* split_and_sort_chunks: chunk_files
    chunk_number,       \* split_and_sort_chunks: chunk_number
    temp_files,         \* the temporary directory: chunk name -> its lines
    file_handles,       \* merge_chunks: file_handles
    heap,               \* merge_chunks: heap, the (value, index) entries
    merge_count,        \* merge_chunks: merge_count
    output,             \* the lines written to output_file
    output_writable,    \* whether output_file can be opened for writing
    k_result            \* how external_merge_sort ended

kwayVars == <<lines, chunk_size, k_pc, line_pos, chunk_files, chunk_number,
              temp_files, file_handles, heap, merge_count, output,
              output_writable, k_result>>

VARIABLES
    \* one call of ExternalBalancedMergeSort.merge_runs
    arg_run1,           \* run1
    arg_run2,           \* run2
    merged,             \* the list returned
    picked,             \* history: where each element of the result came from
    returned            \* whether the call has returned

mrVars == <<arg_run1, arg_run2, merged, picked, returned>>

vars == <<balVars, kwayVars, mrVars>>

\* ----------------------------------------------------------- sequences
RECURSIVE SeqsUpTo(_, _)
SeqsUpTo(S, n) ==
    IF n = 0 THEN {<<>>}
    ELSE LET shorter == SeqsUpTo(S, n - 1)
         IN shorter \cup {Append(s, x) : s \in {t \in shorter : Len(t) = n - 1}, x \in S}

IsAscending(s) == \A i \in 1..(Len(s) - 1) : s[i] <= s[i + 1]

Count(s, v) == Cardinality({i \in 1..Len(s) : s[i] = v})

Elems(s) == {s[i] : i \in 1..Len(s)}

Min(a, b) == IF a <= b THEN a ELSE b

IsPermutation(s, t) ==
    /\ Len(s) = Len(t)
    /\ \A v \in Elems(s) \cup Elems(t) : Count(s, v) = Count(t, v)

\* ------------------------------------------------------------ list.sort
RECURSIVE InsertSorted(_, _)
InsertSorted(s, x) ==
    IF s = <<>> THEN <<x>>
    ELSE IF s[Len(s)] <= x THEN Append(s, x)
    ELSE Append(InsertSorted(SubSeq(s, 1, Len(s) - 1), x), s[Len(s)])

RECURSIVE SortAsc(_)
SortAsc(s) ==
    IF s = <<>> THEN <<>>
    ELSE InsertSorted(SortAsc(SubSeq(s, 1, Len(s) - 1)), s[Len(s)])

\* buffer.sort()
sort(s) == SortAsc(s)

\* ---------------------------------------------------------------- tapes
\* write_run_to_tape: 'wb' truncates or creates, 'ab' appends or creates.
write_run_to_tape(fs, data, tape_path, append) ==
    LET old == IF append /\ tape_path \in DOMAIN fs THEN fs[tape_path] ELSE <<>>
        new == old \o <<Len(data)>> \o data
    IN [t \in DOMAIN fs \cup {tape_path} |-> IF t = tape_path THEN new ELSE fs[t]]

\* read_run_from_tape on the stream `content` with `p` items already read.
\* pickle.load raises EOFError when the stream ends, whether before the
\* length prefix or inside the record; the handler turns both into None.
read_run_from_tape(content, p) ==
    IF p >= Len(content)
    THEN [none |-> TRUE, run |-> <<>>, pos |-> p]
    ELSE LET run_length == content[p + 1]
         IN IF p + 1 + run_length > Len(content)
            THEN [none |-> TRUE, run |-> <<>>, pos |-> Len(content)]
            ELSE [none |-> FALSE,
                  run |-> SubSeq(content, p + 2, p + 1 + run_length),
                  pos |-> p + 1 + run_length]

\* The record at offset p has its length prefix but not all of its values.
CutShort(content, p) ==
    /\ p < Len(content)
    /\ p + 1 + content[p + 1] > Len(content)

AppendModeFlipped(count, cur) == count > 0 /\ cur = ((count + 1) % 2)

\* append_mode = runs_count > 0 and current_tape == (runs_count % 2)
AppendMode(count, cur) == count > 0 /\ cur = (count % 2)

BufferOverfull(buf, limit) == Len(buf) > limit

\* len(buffer) >= self.memory_limit
BufferFull(buf, limit) == Len(buf) >= limit

\* ----------------------------------------------------------- merge_runs
TakeFirstStrict(a, b) == a < b

\* run1[i] <= run2[j]
TakeFirst(a, b) == a <= b

\* The while loop of merge_runs and the two extends, as the sequence of
\* (source run, index) the result is appended from.
RECURSIVE merge_picks(_, _, _, _)
merge_picks(run1, run2, i, j) ==
    IF i <= Len(run1) /\ j <= Len(run2)
    THEN IF TakeFirst(run1[i], run2[j])
         THEN <<<<1, i>>>> \o merge_picks(run1, run2, i + 1, j)
         ELSE <<<<2, j>>>> \o merge_picks(run1, run2, i, j + 1)
    ELSE [k \in 1..(Len(run1) - i + 1) |-> <<1, i + k - 1>>]
         \o [k \in 1..(Len(run2) - j + 1) |-> <<2, j + k - 1>>]

merge_runs(run1, run2) ==
    LET picks == merge_picks(run1, run2, 1, 1)
    IN [k \in 1..Len(picks) |->
           IF picks[k][1] = 1 THEN run1[picks[k][2]] ELSE run2[picks[k][2]]]

\* ------------------------------------------------- balanced merge sort
NoTapes == <<0, 0>>

BalInit ==
    /\ input \in SeqsUpTo(Values, MaxLen)
    /\ memory_limit \in 1..MaxMem
    /\ pc = "gen"
    /\ consumed = 0
    /\ buffer = <<>>
    /\ runs_count = 0
    /\ current_tape = 0
    /\ tape_counter = 2
    /\ initial_tapes = <<1, 2>>
    /\ current_tapes = NoTapes
    /\ output_tapes = NoTapes
    /\ pass_number = 1
    /\ files = <<>>
    /\ tape_files = <<>>
    /\ leaked = {}
    /\ sequences_created = 0
    /\ current_output = 0
    /\ sorted_data = <<>>
    /\ result = "running"
    /\ written = <<>>
    /\ trunc_seen = FALSE

\* One turn of the for loop of create_initial_runs_from_file.
GenRead ==
    /\ pc = "gen"
    /\ consumed < Len(input)
    /\ consumed' = consumed + 1
    /\ LET buf == Append(buffer, input[consumed + 1])
       IN IF BufferFull(buf, memory_limit)
          THEN LET run == sort(buf)
                   target_tape == initial_tapes[current_tape + 1]
                   append_mode == AppendMode(runs_count, current_tape)
               IN /\ files' = write_run_to_tape(files, run, target_tape, append_mode)
                  /\ written' = Append(written, [tape |-> target_tape, run |-> run,
                                                 append |-> append_mode])
                  /\ current_tape' = 1 - current_tape
                  /\ runs_count' = runs_count + 1
                  /\ buffer' = <<>>
          ELSE /\ buffer' = buf
               /\ UNCHANGED <<files, written, current_tape, runs_count>>
    /\ UNCHANGED <<input, memory_limit, pc, tape_counter, initial_tapes,
                   current_tapes, output_tapes, pass_number, tape_files, leaked,
                   sequences_created, current_output, sorted_data, result,
                   trunc_seen, faults>>
    /\ UNCHANGED <<kwayVars, mrVars>>

\* The input is exhausted: the last block, and the return to sort_file.
GenFinish ==
    /\ pc = "gen"
    /\ consumed = Len(input)
    /\ IF buffer # <<>>
       THEN LET run == sort(buffer)
                target_tape == initial_tapes[current_tape + 1]
                append_mode == AppendMode(runs_count, current_tape)
            IN /\ files' = write_run_to_tape(files, run, target_tape, append_mode)
               /\ written' = Append(written, [tape |-> target_tape, run |-> run,
                                              append |-> append_mode])
               /\ runs_count' = runs_count + 1
       ELSE UNCHANGED <<files, written, runs_count>>
    /\ buffer' = <<>>
    /\ current_tapes' = initial_tapes
    /\ pc' = "pass"
    /\ UNCHANGED <<input, memory_limit, consumed, current_tape, tape_counter,
                   initial_tapes, output_tapes, pass_number, tape_files, leaked,
                   sequences_created, current_output, sorted_data, result,
                   trunc_seen, faults>>
    /\ UNCHANGED <<kwayVars, mrVars>>

\* The head of the while loop of sort_file: two fresh output tapes, then
\* merge_phase opens the input tapes, outside its try block.  When an open
\* fails, the handles opened before it are closed by nobody.
PassOpen ==
    /\ pc = "pass"
    /\ tape_counter' = tape_counter + 2
    /\ output_tapes' = <<tape_counter + 1, tape_counter + 2>>
    /\ IF \A k \in 1..Len(current_tapes) : current_tapes[k] \in DOMAIN files
       THEN /\ tape_files' = [k \in 1..Len(current_tapes) |->
                                 [tape |-> current_tapes[k], pos |-> 0]]
            /\ sequences_created' = 0
            /\ current_output' = 0
            /\ written' = <<>>
            /\ pc' = "merge"
            /\ UNCHANGED <<leaked, result>>
       ELSE LET bad == CHOOSE k \in 1..Len(current_tapes) :
                           /\ current_tapes[k] \notin DOMAIN files
                           /\ \A l \in 1..(k - 1) : current_tapes[l] \in DOMAIN files
            IN /\ leaked' = leaked \cup {current_tapes[l] : l \in 1..(bad - 1)}
               /\ result' = "error"
               /\ pc' = "cleanup"
               /\ UNCHANGED <<tape_files, sequences_created, current_output, written>>
    /\ UNCHANGED <<input, memory_limit, consumed, buffer, runs_count, current_tape,
                   initial_tapes, current_tapes, pass_number, files, sorted_data,
                   trunc_seen, faults>>
    /\ UNCHANGED <<kwayVars, mrVars>>

\* What one turn of the while loop of merge_phase reads: one
\* read_run_from_tape per input handle.
Reads == [k \in 1..Len(tape_files) |->
             read_run_from_tape(files[tape_files[k].tape], tape_files[k].pos)]

ReadsCutShort ==
    \E k \in 1..Len(tape_files) :
        CutShort(files[tape_files[k].tape], tape_files[k].pos)

RECURSIVE RunsOf(_, _)
RunsOf(reads, k) ==
    IF k > Len(reads) THEN <<>>
    ELSE IF reads[k].none THEN RunsOf(reads, k + 1)
    ELSE <<reads[k].run>> \o RunsOf(reads, k + 1)

\* A turn of the while loop of merge_phase that obtained at least one run.
MergeIter ==
    /\ pc = "merge"
    /\ LET reads == Reads
           runs == RunsOf(reads, 1)
       IN /\ runs # <<>>
          /\ LET merged_run == IF Len(runs) = 1 THEN runs[1]
                               ELSE merge_runs(runs[1], runs[2])
                 output_tape == output_tapes[current_output + 1]
                 append_mode == AppendMode(sequences_created, current_output)
             IN /\ files' = write_run_to_tape(files, merged_run, output_tape, append_mode)
                /\ written' = Append(written, [tape |-> output_tape, run |-> merged_run,
                                               append |-> append_mode])
          /\ tape_files' = [k \in 1..Len(tape_files) |->
                               [tape |-> tape_files[k].tape, pos |-> reads[k].pos]]
    /\ trunc_seen' = (trunc_seen \/ ReadsCutShort)
    /\ current_output' = 1 - current_output
    /\ sequences_created' = sequences_created + 1
    /\ UNCHANGED <<input, memory_limit, pc, consumed, buffer, runs_count,
                   current_tape, tape_counter, initial_tapes, current_tapes,
                   output_tapes, pass_number, leaked, sorted_data, result, faults>>
    /\ UNCHANGED <<kwayVars, mrVars>>

SortCompleteEarly(created) == created <= 2

\* if sequences_created == 1: break
SortComplete(created) == created = 1

\* The turn that obtains no run: merge_phase closes its handles and returns,
\* sort_file removes the old tapes and either stops or starts another pass.
PassEnd ==
    /\ pc = "merge"
    /\ RunsOf(Reads, 1) = <<>>
    /\ trunc_seen' = (trunc_seen \/ ReadsCutShort)
    /\ tape_files' = <<>>
    /\ files' = [t \in DOMAIN files \ Elems(current_tapes) |-> files[t]]
    /\ IF SortComplete(sequences_created)
       THEN /\ pc' = "final"
            /\ UNCHANGED <<current_tapes, pass_number>>
       ELSE /\ pc' = "pass"
            /\ current_tapes' = output_tapes
            /\ pass_number' = pass_number + 1
    /\ UNCHANGED <<input, memory_limit, consumed, buffer, runs_count, current_tape,
                   tape_counter, initial_tapes, output_tapes, leaked,
                   sequences_created, current_output, sorted_data, result,
                   written, faults>>
    /\ UNCHANGED <<kwayVars, mrVars>>

\* After the loop: the final tape is read and the result written or refused.
Finish ==
    /\ pc = "final"
    /\ LET final_tape == output_tapes[1]
       IN IF final_tape \notin DOMAIN files
          THEN /\ result' = "error"
               /\ UNCHANGED <<sorted_data, trunc_seen>>
          ELSE LET read == read_run_from_tape(files[final_tape], 0)
               IN /\ trunc_seen' = (trunc_seen \/ CutShort(files[final_tape], 0))
                  /\ IF ~read.none /\ read.run # <<>>
                     THEN /\ sorted_data' = read.run
                          /\ result' = "success"
                     ELSE /\ result' = "no_data"
                          /\ UNCHANGED sorted_data
    /\ pc' = "cleanup"
    /\ UNCHANGED <<input, memory_limit, consumed, buffer, runs_count, current_tape,
                   tape_counter, initial_tapes, current_tapes, output_tapes,
                   pass_number, files, tape_files, leaked, sequences_created,
                   current_output, written, faults>>
    /\ UNCHANGED <<kwayVars, mrVars>>

\* The finally block of sort_file: cleanup removes every file of temp_dir.
cleanup ==
    /\ pc = "cleanup"
    /\ files' = <<>>
    /\ pc' = "done"
    /\ UNCHANGED <<input, memory_limit, consumed, buffer, runs_count, current_tape,
                   tape_counter, initial_tapes, current_tapes, output_tapes,
                   pass_number, tape_files, leaked, sequences_created,
                   current_output, sorted_data, result, written, trunc_seen, faults>>
    /\ UNCHANGED <<kwayVars, mrVars>>

\* A handle nobody refers to any more is closed when the runtime collects
\* it: at once under reference counting, at some later time otherwise.
Collect ==
    /\ leaked # {}
    /\ leaked' = {}
    /\ UNCHANGED <<input, memory_limit, pc, consumed, buffer, runs_count,
                   current_tape, tape_counter, initial_tapes, current_tapes,
                   output_tapes, pass_number, files, tape_files,
                   sequences_created, current_output, sorted_data, result,
                   written, trunc_seen, faults>>
    /\ UNCHANGED <<kwayVars, mrVars>>

BalNext ==
    \/ GenRead
    \/ GenFinish
    \/ PassOpen
    \/ MergeIter
    \/ PassEnd
    \/ Finish
    \/ cleanup
    \/ Collect

\* ------------------------------------------------------ text of integers
DigitChars == <<"0", "1", "2", "3", "4", "5", "6", "7", "8", "9">>

RECURSIVE Digits(_)
Digits(n) ==
    IF n < 10 THEN <<DigitChars[n + 1]>>
    ELSE Digits(n \div 10) \o <<DigitChars[(n % 10) + 1]>>

\* f"{num}\n": the decimal line of an integer, without its newline.
FormatInt(n) == IF n < 0 THEN <<"-">> \o Digits(0 - n) ELSE Digits(n)

IsDigit(c) == \E d \in 1..10 : DigitChars[d] = c

DigitValue(c) == (CHOOSE d \in 1..10 : DigitChars[d] = c) - 1

Unsigned(line) == IF line # <<>> /\ line[1] = "-" THEN Tail(line) ELSE line

\* Whether int(line.strip()) returns rather than raising ValueError.
IsIntLiteral(line) ==
    /\ Unsigned(line) # <<>>
    /\ \A i \in 1..Len(Unsigned(line)) : IsDigit(Unsigned(line)[i])

RECURSIVE Magnitude(_)
Magnitude(ds) ==
    IF ds = <<>> THEN 0
    ELSE Magnitude(SubSeq(ds, 1, Len(ds) - 1)) * 10 + DigitValue(ds[Len(ds)])

\* int(line.strip())
ParseInt(line) ==
    IF line # <<>> /\ line[1] = "-" THEN 0 - Magnitude(Tail(line))
    ELSE Magnitude(line)

\* The integers of the k-way engine: negative, one-digit and two-digit ones.
KValues == {7 * v - 10 : v \in Values}

\* A line of the input file: the decimal of an integer, or a blank line.
KLines == {FormatInt(v) : v \in KValues} \cup {<<>>}

\* ------------------------------------------------------- k-way merge sort
KwayIdle ==
    /\ lines = <<>>
    /\ chunk_size = 1
    /\ k_pc = "idle"
    /\ line_pos = 0
    /\ chunk_files = <<>>
    /\ chunk_number = 0
    /\ temp_files = <<>>
    /\ file_handles = <<>>
    /\ heap = {}
    /\ merge_count = 0
    /\ output = <<>>
    /\ output_writable = TRUE
    /\ k_result = "running"

KwayInit ==
    /\ lines \in SeqsUpTo(KLines, MaxLen)
    /\ chunk_size \in 1..MaxMem
    /\ k_pc = "split"
    /\ line_pos = 0
    /\ chunk_files = <<>>
    /\ chunk_number = 0
    /\ temp_files = <<>>
    /\ file_handles = <<>>
    /\ heap = {}
    /\ merge_count = 0
    /\ output = <<>>
    /\ output_writable \in BOOLEAN
    /\ k_result = "running"

\* One turn of the while loop of split_and_sort_chunks.  int() raising
\* ValueError leaves external_merge_sort through its except clause.
SplitChunk ==
    /\ k_pc = "split"
    /\ LET last == Min(line_pos + chunk_size, Len(lines))
           got == SubSeq(lines, line_pos + 1, last)
       IN IF \E i \in 1..Len(got) : ~IsIntLiteral(got[i])
          THEN /\ k_result' = "error"
               /\ k_pc' = "done"
               /\ UNCHANGED <<line_pos, chunk_files, chunk_number, temp_files>>
          ELSE IF got = <<>>
          THEN /\ k_pc' = "open"
               /\ UNCHANGED <<line_pos, chunk_files, chunk_number, temp_files, k_result>>
          ELSE LET chunk == sort([i \in 1..Len(got) |-> ParseInt(got[i])])
                   name == chunk_number + 1
               IN /\ temp_files' =
                         [t \in DOMAIN temp_files \cup {name} |->
                             IF t = name
                             THEN [i \in 1..Len(chunk) |-> FormatInt(chunk[i])]
                             ELSE temp_files[t]]
                  /\ chunk_files' = Append(chunk_files, name)
                  /\ chunk_number' = chunk_number + 1
                  /\ line_pos' = last
                  /\ UNCHANGED <<k_pc, k_result>>
    /\ UNCHANGED <<lines, chunk_size, file_handles, heap, merge_count, output,
                   output_writable>>
    /\ UNCHANGED <<balVars, mrVars>>

\* file_handle.readline() on a chunk with `p` lines already read.
readline(content, p) ==
    IF p < Len(content)
    THEN [eof |-> FALSE, line |-> content[p + 1], pos |-> p + 1]
    ELSE [eof |-> TRUE, line |-> <<>>, pos |-> p]

HeapPopByIndex(h) ==
    CHOOSE e \in h : \A f \in h : e[2] <= f[2]

\* heapq.heappop(heap): the least (value, index) pair.
HeapPop(h) ==
    CHOOSE e \in h : \A f \in h : e[1] < f[1] \/ (e[1] = f[1] /\ e[2] <= f[2])

\* merge_chunks opens every chunk and pushes the first value of each.
MergeOpen ==
    /\ k_pc = "open"
    /\ LET firsts == [k \in 1..Len(chunk_files) |-> readline(temp_files[chunk_files[k]], 0)]
       IN /\ file_handles' = [k \in 1..Len(chunk_files) |->
                                 [name |-> chunk_files[k], pos |-> firsts[k].pos,
                                  open |-> TRUE]]
          /\ IF \E k \in 1..Len(firsts) : ~firsts[k].eof /\ ~IsIntLiteral(firsts[k].line)
             THEN /\ k_result' = "error"
                  /\ k_pc' = "done"
                  /\ UNCHANGED heap
             ELSE /\ heap' = {<<ParseInt(firsts[k].line), k - 1>> :
                                 k \in {l \in 1..Len(firsts) : ~firsts[l].eof}}
                  /\ k_pc' = "output"
                  /\ UNCHANGED k_result
    /\ UNCHANGED <<lines, chunk_size, line_pos, chunk_files, chunk_number,
                   temp_files, merge_count, output, output_writable>>
    /\ UNCHANGED <<balVars, mrVars>>

\* with open(output_file, 'w'): an output that cannot be opened raises, and
\* external_merge_sort leaves through its except clause.
OutputOpen ==
    /\ k_pc = "output"
    /\ IF output_writable
       THEN /\ k_pc' = "heap"
            /\ merge_count' = 0
            /\ UNCHANGED k_result
       ELSE /\ k_result' = "error"
            /\ k_pc' = "done"
            /\ UNCHANGED merge_count
    /\ UNCHANGED <<lines, chunk_size, line_pos, chunk_files, chunk_number,
                   temp_files, file_handles, heap, output, output_writable>>
    /\ UNCHANGED <<balVars, mrVars>>

\* One turn of the while loop over the heap.
HeapStep ==
    /\ k_pc = "heap"
    /\ heap # {}
    /\ LET top == HeapPop(heap)
           min_val == top[1]
           file_index == top[2]
           h == file_handles[file_index + 1]
           next_line == readline(temp_files[h.name], h.pos)
       IN /\ output' = Append(output, FormatInt(min_val))
          /\ merge_count' = merge_count + 1
          /\ file_handles' = [file_handles EXCEPT ![file_index + 1].pos = next_line.pos]
          /\ IF next_line.eof
             THEN /\ heap' = heap \ {top}
                  /\ UNCHANGED <<k_pc, k_result>>
             ELSE IF IsIntLiteral(next_line.line)
             THEN /\ heap' = (heap \ {top}) \cup {<<ParseInt(next_line.line), file_index>>}
                  /\ UNCHANGED <<k_pc, k_result>>
             ELSE /\ heap' = heap \ {top}
                  /\ k_result' = "error"
                  /\ k_pc' = "done"
    /\ UNCHANGED <<lines, chunk_size, line_pos, chunk_files, chunk_number,
                   temp_files, output_writable>>
    /\ UNCHANGED <<balVars, mrVars>>

\* The heap is empty: the output is closed, then every chunk handle.
MergeClose ==
    /\ k_pc = "heap"
    /\ heap = {}
    /\ file_handles' = [k \in 1..Len(file_handles) |->
                           [file_handles[k] EXCEPT !.open = FALSE]]
    /\ k_pc' = "cleanup"
    /\ UNCHANGED <<lines, chunk_size, line_pos, chunk_files, chunk_number,
                   temp_files, heap, merge_count, output, output_writable, k_result>>
    /\ UNCHANGED <<balVars, mrVars>>

\* cleanup_temp_files, and the end of external_merge_sort.
cleanup_temp_files ==
    /\ k_pc = "cleanup"
    /\ temp_files' = [t \in DOMAIN temp_files \ Elems(chunk_files) |-> temp_files[t]]
    /\ k_result' = "ok"
    /\ k_pc' = "done"
    /\ UNCHANGED <<lines, chunk_size, line_pos, chunk_files, chunk_number,
                   file_handles, heap, merge_count, output, output_writable>>
    /\ UNCHANGED <<balVars, mrVars>>

MergeChunksNext ==
    \/ MergeOpen
    \/ OutputOpen
    \/ HeapStep
    \/ MergeClose

KwayNext ==
    \/ SplitChunk
    \/ MergeChunksNext
    \/ cleanup_temp_files

\* ------------------------------------------------ merge_chunks on its own
RECURSIVE AscSeqs(_, _)
\* The ascending sequences of at most n values, none below lo.
AscSeqs(n, lo) ==
    IF n = 0 THEN {<<>>}
    ELSE {<<>>} \cup UNION {{<<v>> \o s : s \in AscSeqs(n - 1, v)} :
                               v \in {w \in Values : w >= lo}}

RECURSIVE ChunkLists(_, _)
\* The lists of exactly k ascending chunks holding at most n values in all.
ChunkLists(k, n) ==
    IF k = 0 THEN {<<>>}
    ELSE UNION {{<<c>> \o rest : rest \in ChunkLists(k - 1, n - Len(c))} :
                   c \in AscSeqs(n, 1)}

KScale(c) == [i \in 1..Len(c) |-> 7 * c[i] - 10]

ChunksInit ==
    /\ \E k \in 0..MaxChunks : \E cs \in ChunkLists(k, MaxTotal) :
           /\ chunk_files = [i \in 1..k |-> i]
           /\ temp_files = [i \in 1..k |->
                               [j \in 1..Len(cs[i]) |-> FormatInt(KScale(cs[i])[j])]]
           /\ chunk_number = k
    /\ lines = <<>>
    /\ chunk_size = 1
    /\ k_pc = "open"
    /\ line_pos = 0
    /\ file_handles = <<>>
    /\ heap = {}
    /\ merge_count = 0
    /\ output = <<>>
    /\ output_writable = TRUE
    /\ k_result = "running"

\* ------------------------------------------------------ merge_runs alone
MrIdle ==
    /\ arg_run1 = <<>>
    /\ arg_run2 = <<>>
    /\ merged = <<>>
    /\ picked = <<>>
    /\ returned = FALSE

MrInit ==
    /\ arg_run1 \in AscSeqs(MaxRun, 1)
    /\ arg_run2 \in AscSeqs(MaxRun, 1)
    /\ merged = <<>>
    /\ picked = <<>>
    /\ returned = FALSE

CallMergeRuns ==
    /\ ~returned
    /\ merged' = merge_runs(arg_run1, arg_run2)
    /\ picked' = merge_picks(arg_run1, arg_run2, 1, 1)
    /\ returned' = TRUE
    /\ UNCHANGED <<arg_run1, arg_run2>>
    /\ UNCHANGED <<balVars, kwayVars>>

MrNext == CallMergeRuns

\* The environment of the fault-free runs: the storage keeps what was written
\* and the input reader yields every number.
Init == BalInit /\ faults = 0 /\ KwayIdle /\ MrIdle

Next == BalNext

Spec == Init /\ [][Next]_vars

\* ------------------------------------------------------------- faults
\* The tapes that are still to be read: the input tapes of a pass that is
\* about to start or is running, and the final tape.
FaultTargets ==
    CASE pc \in {"pass", "merge"} -> Elems(current_tapes)
      [] pc = "final" -> {output_tapes[1]}
      [] OTHER -> {}

\* The storage loses the tail of a tape that is still to be read.
Corrupt ==
    /\ faults > 0
    /\ \E t \in FaultTargets \cap DOMAIN files : \E n \in 0..(Len(files[t]) - 1) :
           files' = [files EXCEPT ![t] = SubSeq(files[t], 1, n)]
    /\ faults' = faults - 1
    /\ UNCHANGED <<input, memory_limit, pc, consumed, buffer, runs_count,
                   current_tape, tape_counter, initial_tapes, current_tapes,
                   output_tapes, pass_number, tape_files, leaked,
                   sequences_created, current_output, sorted_data, result,
                   written, trunc_seen>>
    /\ UNCHANGED <<kwayVars, mrVars>>

\* read_input_file raises while the generator iterates over it (the input
\* file is missing, or an item of its list is no integer).
ReadFail ==
    /\ faults > 0
    /\ pc = "gen"
    /\ result' = "error"
    /\ pc' = "cleanup"
    /\ faults' = faults - 1
    /\ UNCHANGED <<input, memory_limit, consumed, buffer, runs_count,
                   current_tape, tape_counter, initial_tapes, current_tapes,
                   output_tapes, pass_number, files, tape_files, leaked,
                   sequences_created, current_output, sorted_data,
                   written, trunc_seen>>
    /\ UNCHANGED <<kwayVars, mrVars>>

FaultInit == BalInit /\ faults = MaxFaults /\ KwayIdle /\ MrIdle

FaultNext ==
    \/ BalNext
    \/ Corrupt
    \/ ReadFail

SpecFault == FaultInit /\ [][FaultNext]_vars

BalIdle ==
    /\ input = <<>>
    /\ memory_limit = 1
    /\ pc = "idle"
    /\ consumed = 0
    /\ buffer = <<>>
    /\ runs_count = 0
    /\ current_tape = 0
    /\ tape_counter = 0
    /\ initial_tapes = NoTapes
    /\ current_tapes = NoTapes
    /\ output_tapes = NoTapes
    /\ pass_number = 1
    /\ files = <<>>
    /\ tape_files = <<>>
    /\ leaked = {}
    /\ sequences_created = 0
    /\ current_output = 0
    /\ sorted_data = <<>>
    /\ result = "running"
    /\ written = <<>>
    /\ trunc_seen = FALSE
    /\ faults = 0

\* external_merge_sort on an input file.
InitKway == KwayInit /\ BalIdle /\ MrIdle

SpecKway == InitKway /\ [][KwayNext]_vars

\* merge_chunks on any list of sorted chunk files.
InitChunks == ChunksInit /\ BalIdle /\ MrIdle

NextChunks == MergeChunksNext

SpecChunks == InitChunks /\ [][NextChunks]_vars

\* merge_runs on any two ascending runs.
InitMerge == MrInit /\ BalIdle /\ KwayIdle

SpecMerge == InitMerge /\ [][MrNext]_vars

\* ------------------------------------------------- merge_phase on its own
RECURSIVE TapeOf(_)
\* The stream of a tape that the runs of `runs` were written to, in order.
TapeOf(runs) ==
    IF runs = <<>> THEN <<>>
    ELSE <<Len(Head(runs))>> \o Head(runs) \o TapeOf(Tail(runs))

RECURSIVE RunLists(_)
\* The lists of non-empty ascending runs holding at most n values in all.
RunLists(n) ==
    {<<>>} \cup UNION {{<<r>> \o rest : rest \in RunLists(n - Len(r))} :
                          r \in AscSeqs(n, 1) \ {<<>>}}

RECURSIVE ValuesIn(_)
ValuesIn(runs) == IF runs = <<>> THEN 0 ELSE Len(Head(runs)) + ValuesIn(Tail(runs))

RECURSIVE AreaLists(_, _)
\* The lists of exactly k areas holding at most n values in all.
AreaLists(k, n) ==
    IF k = 0 THEN {<<>>}
    ELSE UNION {{<<a>> \o rest : rest \in AreaLists(k - 1, n - ValuesIn(a))} :
                   a \in RunLists(n)}

\* merge_phase(input_tapes, output_tapes) is called on N existing input
\* tapes and two output tapes that do not exist yet.
PhaseInit ==
    /\ \E N \in 1..MaxAreas : \E areas \in AreaLists(N, MaxTotal) :
           /\ files = [i \in 1..N |-> TapeOf(areas[i])]
           /\ current_tapes = [i \in 1..N |-> i]
           /\ output_tapes = <<N + 1, N + 2>>
           /\ tape_counter = N + 2
    /\ input = <<>>
    /\ memory_limit = 1
    /\ pc = "phase"
    /\ consumed = 0
    /\ buffer = <<>>
    /\ runs_count = 0
    /\ current_tape = 0
    /\ initial_tapes = NoTapes
    /\ pass_number = 1
    /\ tape_files = <<>>
    /\ leaked = {}
    /\ sequences_created = 0
    /\ current_output = 0
    /\ sorted_data = <<>>
    /\ result = "running"
    /\ written = <<>>
    /\ trunc_seen = FALSE
    /\ faults = 0

\* merge_phase opens its input tapes.
PhaseOpen ==
    /\ pc = "phase"
    /\ IF \A k \in 1..Len(current_tapes) : current_tapes[k] \in DOMAIN files
       THEN /\ tape_files' = [k \in 1..Len(current_tapes) |->
                                 [tape |-> current_tapes[k], pos |-> 0]]
            /\ pc' = "merge"
            /\ UNCHANGED <<leaked, result>>
       ELSE LET bad == CHOOSE k \in 1..Len(current_tapes) :
                           /\ current_tapes[k] \notin DOMAIN files
                           /\ \A l \in 1..(k - 1) : current_tapes[l] \in DOMAIN files
            IN /\ leaked' = leaked \cup {current_tapes[l] : l \in 1..(bad - 1)}
               /\ result' = "error"
               /\ pc' = "raised"
               /\ UNCHANGED tape_files
    /\ sequences_created' = 0
    /\ current_output' = 0
    /\ written' = <<>>
    /\ UNCHANGED <<input, memory_limit, consumed, buffer, runs_count, current_tape,
                   tape_counter, initial_tapes, current_tapes, output_tapes,
                   pass_number, files, sorted_data, trunc_seen, faults>>
    /\ UNCHANGED <<kwayVars, mrVars>>

\* The turn that obtains no run: merge_phase closes its handles and returns
\* sequences_created.
PhaseReturn ==
    /\ pc = "merge"
    /\ RunsOf(Reads, 1) = <<>>
    /\ trunc_seen' = (trunc_seen \/ ReadsCutShort)
    /\ tape_files' = <<>>
    /\ pc' = "returned"
    /\ UNCHANGED <<input, memory_limit, consumed, buffer, runs_count, current_tape,
                   tape_counter, initial_tapes, current_tapes, output_tapes,
                   pass_number, files, leaked, sequences_created, current_output,
                   sorted_data, result, written, faults>>
    /\ UNCHANGED <<kwayVars, mrVars>>

InitPhase == PhaseInit /\ KwayIdle /\ MrIdle

PhaseNext ==
    \/ PhaseOpen
    \/ MergeIter
    \/ PhaseReturn

\* merge_phase on any list of input tapes.
SpecPhase == InitPhase /\ [][PhaseNext]_vars

\* ------------------------------------------------------------- claims
SortDone == pc = "done"

GenEnded == pc = "pass" /\ pass_number = 1

\* C1: for every input and every positive memory_limit, sort_file succeeds
\* and the run it hands to the output writer is ascending and a permutation
\* of the input.
C1_SortSucceeds ==
    SortDone =>
        /\ result = "success"
        /\ IsAscending(sorted_data)
        /\ IsPermutation(sorted_data, input)

PickedFrom(pk) == IF pk[1] = 1 THEN arg_run1[pk[2]] ELSE arg_run2[pk[2]]

\* C2: for two ascending runs A and B (either may be empty) merge_runs
\* returns an ascending permutation of A followed by B, and among equal
\* values every element taken from A comes before every element from B.
C2_MergeRunsStable ==
    returned =>
        /\ IsAscending(merged)
        /\ IsPermutation(merged, arg_run1 \o arg_run2)
        /\ Len(picked) = Len(merged)
        /\ \A k \in 1..Len(merged) : merged[k] = PickedFrom(picked[k])
        /\ \A i \in 1..Len(arg_run1) :
               Cardinality({k \in 1..Len(picked) : picked[k] = <<1, i>>}) = 1
        /\ \A j \in 1..Len(arg_run2) :
               Cardinality({k \in 1..Len(picked) : picked[k] = <<2, j>>}) = 1
        /\ \A k \in 1..Len(merged) : \A l \in (k + 1)..Len(merged) :
               (merged[k] = merged[l] /\ picked[k][1] = 2) => picked[l][1] = 2

C2_Witness ==
    /\ returned
    /\ Len(arg_run1) >= 2
    /\ Len(arg_run2) >= 2
    /\ \E i \in 1..Len(arg_run1) : \E j \in 1..Len(arg_run2) :
           arg_run1[i] = arg_run2[j]
    /\ arg_run2[1] < arg_run1[Len(arg_run1)]

ParsedLines(content) == [i \in 1..Len(content) |-> ParseInt(content[i])]

RECURSIVE AllChunks(_)
\* The values of the chunk files from the k-th on, one chunk after another.
AllChunks(k) ==
    IF k > Len(chunk_files) THEN <<>>
    ELSE ParsedLines(temp_files[chunk_files[k]]) \o AllChunks(k + 1)

RECURSIVE Unread(_)
\* How many lines the handles from the k-th on have not read yet.
Unread(k) ==
    IF k > Len(file_handles) THEN 0
    ELSE (Len(temp_files[file_handles[k].name]) - file_handles[k].pos) + Unread(k + 1)

\* C3: for any number of ascending chunks of any lengths (empty ones too)
\* the heap loop of merge_chunks ends with an empty heap, having emitted an
\* ascending permutation of the chunks' values, one value per turn.
C3_HeapMergeSorted ==
    /\ k_result # "error"
    /\ IsAscending(ParsedLines(output))
    /\ k_pc = "heap" =>
           merge_count + Cardinality(heap) + Unread(1) = Len(AllChunks(1))
    /\ k_pc = "cleanup" =>
           /\ heap = {}
           /\ merge_count = Len(AllChunks(1))
           /\ IsPermutation(ParsedLines(output), AllChunks(1))

C3_Witness ==
    /\ k_pc = "cleanup"
    /\ Len(chunk_files) = 3
    /\ \E k \in 1..3 : temp_files[chunk_files[k]] = <<>>
    /\ \E k \in 1..3 : Len(temp_files[chunk_files[k]]) >= 2
    /\ Len(output) >= 3
    /\ output[1] # output[Len(output)]
    /\ ParsedLines(output) # AllChunks(1)

RECURSIVE TotalLen(_)
TotalLen(w) == IF w = <<>> THEN 0 ELSE Len(Head(w).run) + TotalLen(Tail(w))

\* C4: the runs the generator writes are, in the order written, the
\* ascending sorts of the consecutive blocks of memory_limit input numbers,
\* a shorter remainder being written as the last run; no run is longer than
\* memory_limit and the runs hold as many numbers as were read.
C4_RunsAreSortedBlocks ==
    (pc = "gen" \/ GenEnded) =>
        LET m == memory_limit
            n == Len(written)
        IN /\ \A i \in 1..n :
                  LET lo == (i - 1) * m + 1
                      hi == Min(i * m, Len(input))
                  IN /\ lo <= hi
                     /\ IsAscending(written[i].run)
                     /\ IsPermutation(written[i].run, SubSeq(input, lo, hi))
                     /\ Len(written[i].run) <= m
           /\ pc = "gen" =>
                  /\ Len(buffer) < m
                  /\ consumed = n * m + Len(buffer)
                  /\ buffer = SubSeq(input, n * m + 1, consumed)
           /\ GenEnded =>
                  /\ TotalLen(written) = Len(input)
                  /\ n * m >= Len(input)
                  /\ (n - 1) * m < Len(input) \/ n = 0

C4_Witness ==
    /\ GenEnded
    /\ Len(written) >= 2
    /\ Len(written[Len(written)].run) < memory_limit
    /\ \E i \in 1..(Len(input) - 1) : input[i] > input[i + 1]

\* C5: a non-empty input of at most memory_limit numbers gives one run, the
\* first merge pass completes and writes that run unchanged, and sort_file
\* succeeds with the sorted input.
C5_SingleRunSucceeds ==
    (input # <<>> /\ Len(input) <= memory_limit) =>
        /\ GenEnded => Len(written) = 1
        /\ pc \in {"cleanup", "done"} =>
               /\ result = "success"
               /\ IsAscending(sorted_data)
               /\ IsPermutation(sorted_data, input)

\* C6: on an empty input the generator writes no run and sort_file ends in
\* the "no data processed" outcome, not in the error outcome.
C6_EmptyReportsNoData ==
    input = <<>> =>
        /\ GenEnded => written = <<>>
        /\ pc \in {"cleanup", "done"} => result = "no_data"

\* C7: a read that meets a record cut short (a length prefix N with fewer
\* than N values after it) is a fatal error that aborts the pass; the pass
\* never goes on as if the tape had ended.
C7_CutShortIsFatal ==
    trunc_seen => (result = "error" /\ pc \in {"cleanup", "done"})

OpenTapes == {tape_files[k].tape : k \in 1..Len(tape_files)} \cup leaked

\* C8: no tape is deleted while a read handle opened on it is still open:
\* every open handle is on a tape that still exists.
C8_NoDeleteWhileOpen ==
    \A t \in OpenTapes : t \in DOMAIN files

\* C9: in both engines, whenever a sort ends, by success or by an error in
\* run generation or merging, every temporary tape or chunk file it created
\* has been deleted.
C9_NoTempLeftBehind ==
    /\ pc = "done" => DOMAIN files = {}
    /\ k_pc = "done" => DOMAIN temp_files = {}

\* The tapes the current phase writes to.
PhaseTargets ==
    CASE pc = "gen" -> initial_tapes
      [] pc = "pass" -> current_tapes
      [] OTHER -> output_tapes

RECURSIVE Records(_, _, _)
Records(w, i, a) ==
    IF i > Len(w) THEN <<>>
    ELSE IF (i - 1) % 2 = a
         THEN <<Len(w[i].run)>> \o w[i].run \o Records(w, i + 1, a)
         ELSE Records(w, i + 1, a)

\* C10: in the generator and in a merge pass the i-th run written (from 0)
\* goes to area i mod 2 and no write overwrites an earlier run of the phase:
\* area 0 holds runs 0, 2, 4, ... and area 1 runs 1, 3, 5, ..., in the order
\* written, and only the very first write is in overwrite mode.
C10_RoundRobinAppend ==
    pc \in {"gen", "pass", "merge", "final"} =>
        /\ \A i \in 1..Len(written) :
               /\ written[i].tape = PhaseTargets[((i - 1) % 2) + 1]
               /\ written[i].append = (i > 1)
        /\ \A a \in {0, 1} :
               IF Len(written) <= a
               THEN PhaseTargets[a + 1] \notin DOMAIN files
               ELSE /\ PhaseTargets[a + 1] \in DOMAIN files
                    /\ files[PhaseTargets[a + 1]] = Records(written, 1, a)

C10_Witness ==
    /\ pc = "merge"
    /\ Len(written) = 3
    /\ written[1].run # written[3].run

RECURSIVE RecordCount(_, _)
\* How many records the stream holds from offset p on.
RecordCount(content, p) ==
    IF p >= Len(content) THEN 0
    ELSE 1 + RecordCount(content, p + 1 + content[p + 1])

RECURSIVE Pow2(_)
Pow2(p) == IF p = 0 THEN 1 ELSE 2 * Pow2(p - 1)

CeilDiv(a, b) == (a + b - 1) \div b

\* The least p with 2^p >= n.
CeilLog2(n) == CHOOSE p \in 0..n : Pow2(p) >= n /\ (p = 0 \/ Pow2(p - 1) < n)

\* The runs on the input tapes of the running pass, and those not yet read.
InputRuns ==
    LET counts == [k \in 1..Len(tape_files) |-> RecordCount(files[tape_files[k].tape], 0)]
    IN counts[1] + counts[2]

InputRunsLeft ==
    LET counts == [k \in 1..Len(tape_files) |->
                      RecordCount(files[tape_files[k].tape], tape_files[k].pos)]
    IN counts[1] + counts[2]

C11_PassCounts ==
    /\ pc = "merge" =>
           /\ InputRuns >= 2
           /\ InputRuns = CeilDiv(runs_count, Pow2(pass_number - 1))
           /\ sequences_created = CeilDiv(InputRuns - InputRunsLeft, 2)
    /\ (pc = "pass" /\ pass_number > 1) => sequences_created >= 2
    /\ pc = "final" =>
           /\ runs_count >= 2
           /\ sequences_created = 1
           /\ pass_number = CeilLog2(runs_count)
           /\ output_tapes[1] \in DOMAIN files
           /\ RecordCount(files[output_tapes[1]], 0) = 1
           /\ output_tapes[2] \notin DOMAIN files
    /\ (runs_count >= 2 /\ pc \in {"cleanup", "done"}) =>
           /\ result = "success"
           /\ pass_number = CeilLog2(runs_count)

Max(a, b) == IF a >= b THEN a ELSE b

\* The runs on the tapes of `tapes` that exist.
RunsOn(tapes) ==
    LET counts == [k \in 1..Len(tapes) |->
                      IF tapes[k] \in DOMAIN files
                      THEN RecordCount(files[tapes[k]], 0) ELSE 0]
    IN counts[1] + counts[2]

\* The turns the while loop of merge_phase still has to make.
TurnsLeft ==
    LET counts == [k \in 1..Len(tape_files) |->
                      RecordCount(files[tape_files[k].tape], tape_files[k].pos)]
    IN Max(counts[1], counts[2])

\* A bound on the steps sort_file needs from a pass that starts on r runs.
PassBound(r) == 5 * r + 3

\* A bound on the steps sort_file still has to take.
StepsLeft ==
    Cardinality(leaked) +
    CASE pc = "gen" -> (Len(input) - consumed) + 1 + PassBound(Len(input))
      [] pc = "pass" -> PassBound(RunsOn(current_tapes))
      [] pc = "merge" -> TurnsLeft + 1 + PassBound(sequences_created + TurnsLeft)
      [] pc = "final" -> 2
      [] pc = "cleanup" -> 1
      [] OTHER -> 0

\* sort_file is done or has a next step.  A turn of the while loop of
\* merge_phase that obtained a run has nothing left that could stop it.
HasNextStep ==
    \/ pc = "done"
    \/ pc = "merge" /\ RunsOf(Reads, 1) # <<>>
    \/ ENABLED (GenRead \/ GenFinish \/ PassOpen \/ PassEnd \/ Finish \/ cleanup)

\* C11: the driver loop of sort_file always terminates (every step lowers a
\* bound on the steps left, and sort_file has a next step until it is done);
\* a pass over m >= 2 runs writes ceil(m/2) runs, so from n >= 2 initial
\* runs the loop stops at the first pass that writes one run, after
\* ceil(log2(n)) passes, with that run on the first output tape of the last
\* pass.
C11_DriverTerminates ==
    /\ [](C11_PassCounts /\ HasNextStep)
    /\ [][StepsLeft' < StepsLeft]_vars

C11_Witness ==
    /\ pc = "final"
    /\ runs_count = 5
    /\ pass_number = 3

RECURSIVE TapeValues(_, _)
\* The values of the records of a stream from offset p on, run after run.
TapeValues(content, p) ==
    IF p >= Len(content) THEN <<>>
    ELSE SubSeq(content, p + 2, p + 1 + content[p + 1])
         \o TapeValues(content, p + 1 + content[p + 1])

RECURSIVE ValuesOnTapes(_, _)
\* The values on the tapes of `tapes` from the k-th on (a tape that does not
\* exist holds none).
ValuesOnTapes(tapes, k) ==
    IF k > Len(tapes) THEN <<>>
    ELSE (IF tapes[k] \in DOMAIN files THEN TapeValues(files[tapes[k]], 0) ELSE <<>>)
         \o ValuesOnTapes(tapes, k + 1)

\* C12: for any number N >= 1 of input areas, each holding any number of
\* ascending runs, merge_phase discards nothing it reads: when the pass ends
\* the values on the output areas are a permutation of the values on the
\* input areas, and every run written is ascending.
C12_PassLosesNothing ==
    pc = "returned" =>
        /\ \A i \in 1..Len(written) : IsAscending(written[i].run)
        /\ IsPermutation(ValuesOnTapes(output_tapes, 1), ValuesOnTapes(current_tapes, 1))

=============================================================================
